---------------------------- MODULE Spec2Model ----------------------------
(***************************************************************************)
(* Model of the fixed-length ring buffer Fixed<S> of                       *)
(* src/src/ringbuffer_1/ringbuffer_fixed.rs.                               *)
(*                                                                         *)
(* A ring is the pair (first, data).  The storage `data` is a sequence;    *)
(* physical slot s (0-based, as in the source) is data[s + 1].  References *)
(* handed out by the accessors are modelled by the slot they point to, so  *)
(* that "which element" is decided by position and not by value.           *)
(***************************************************************************)
EXTENDS Integers, Sequences, FiniteSets, TLC

\* ---------------------------------------------------------------- bounds
\* longest storage handed to a constructor
MaxLen == 3
\* modelled width of usize, in bits
UsizeBits == 3
\* pushes counted since the cursor was last set (construction or set_first)
MaxPush == 4
\* longest sequence handed to extend
MaxExt == 2
\* elements drawn from one iter_loop() iterator
MaxIter == 7

RECURSIVE Pow2(_)
Pow2(n) == IF n = 0 THEN 1 ELSE 2 * Pow2(n - 1)

\* number of values of usize
UsizeRange == Pow2(UsizeBits)

Usize == 0 .. (UsizeRange - 1)

\* S::Element: the ring never inspects an element, so two values are enough
\* to tell any two positions apart
Val == {0, 1}

RECURSIVE SeqsUpTo(_)
SeqsUpTo(n) == IF n = 0 THEN {<<>>}
               ELSE SeqsUpTo(n - 1) \cup [1 .. n -> Val]

\* the storages a caller can supply (any Slice implementor: its length is all
\* the ring sees of it)
Storage == SeqsUpTo(MaxLen)

\* absent element / absent reference
None == -1

VARIABLES
    pc,      \* "start": no ring yet; "ready"; "panicked"; "consumed": the
             \* ring was taken apart by into_raw_parts
    first,   \* Fixed::first
    data,    \* Fixed::data, through Slice::slice()
    res,     \* the last call: its name, arguments and outcome
    first0,  \* history: the cursor when it was last set directly
    fifo,    \* history: the elements then in the ring, oldest first, followed
             \* by the items pushed since, less one per push made
    npush,   \* history: the number of pushes since
    it       \* the live iter_loop() iterator, if any

vars == <<pc, first, data, res, first0, fifo, npush, it>>

\* ------------------------------------------------------------ arithmetic
\* bitwise AND of two naturals
RECURSIVE BitAnd(_, _)
BitAnd(a, b) ==
    IF a = 0 \/ b = 0 THEN 0
    ELSE (IF a % 2 = 1 /\ b % 2 = 1 THEN 1 ELSE 0) + 2 * BitAnd(a \div 2, b \div 2)

\* usize addition: [v |-> the wrapped sum, overflow |-> did it overflow]
UsizeAdd(a, b) ==
    [v |-> (a + b) % UsizeRange, overflow |-> (a + b) >= UsizeRange]

\* Fixed::len: self.data.slice().len()
LenOf(d) == Len(d)

\* ------------------------------------------------------------- call log
NoRes ==
    [op |-> "none", idx |-> None, item |-> None, input |-> <<>>,
     panicked |-> FALSE, ret |-> None, ref |-> None,
     run1 |-> <<>>, run2 |-> <<>>, after |-> "none"]

NoIter == [active |-> FALSE, pos |-> 0, n |-> 0, k |-> 0, out |-> None,
           ended |-> FALSE]

\* the elements of (f, d) oldest first: position j is slot (f + j) mod len
Logical(f, d) == [j \in 1 .. Len(d) |-> d[((f + j - 1) % Len(d)) + 1]]

\* -------------------------------------------------------------- construction
\* the assertion with <= for <
RawPartsOkInclusive(f, d) == f <= LenOf(d)

\* assert!(first < data.slice().len())
RawPartsOk(f, d) == f < LenOf(d)

Init ==
    /\ pc = "start"
    /\ first = 0
    /\ data = <<>>
    /\ res = NoRes
    /\ first0 = 0
    /\ fifo = <<>>
    /\ npush = 0
    /\ it = NoIter

\* the common tail of the checked constructors: Fixed { first, data } or a
\* panic; `given` is the caller's argument as the call log keeps it
BuildFrom(by, f, d, given) ==
    /\ pc = "start"
    /\ res' = [NoRes EXCEPT !.op = by, !.idx = f, !.input = given,
                            !.panicked = ~RawPartsOk(f, d)]
    /\ IF RawPartsOk(f, d)
       THEN /\ pc' = "ready"
            /\ first' = f
            /\ data' = d
            /\ first0' = f
            /\ fifo' = Logical(f, d)
       ELSE /\ pc' = "panicked"
            /\ UNCHANGED <<first, data, first0, fifo>>
    /\ UNCHANGED <<npush, it>>

Build(by, f, d) == BuildFrom(by, f, d, d)

FromRawParts == \E f \in Usize, d \in Storage : Build("from_raw_parts", f, d)

\* Fixed::from_raw_parts_unchecked: Fixed { first, data }, nothing asserted
FromRawPartsUnchecked ==
    /\ pc = "start"
    /\ \E f \in Usize, d \in Storage :
         /\ res' = [NoRes EXCEPT !.op = "from_raw_parts_unchecked",
                                 !.idx = f, !.input = d]
         /\ first' = f
         /\ data' = d
         /\ first0' = f
         /\ fifo' = IF f < Len(d) THEN Logical(f, d) ELSE <<>>
    /\ pc' = "ready"
    /\ UNCHANGED <<npush, it>>

\* from that hands from_raw_parts the cursor 1
FromOpOne(d) == <<1, d>>

\* From::from: the arguments of Self::from_raw_parts(0, data)
FromOp(d) == <<0, d>>

From == \E d \in Storage : Build("from", FromOp(d)[1], FromOp(d)[2])

\* a collection that loses the last element of the sequence
CollectShort(s) == IF s = <<>> THEN s ELSE SubSeq(s, 1, Len(s) - 1)

\* S::from_iter(iter) for the storages that collect (Vec, Box<[T]>): every
\* element of the sequence, in order; its length becomes the ring's length
Collect(s) == s

\* FromIterator::from_iter: let data = S::from_iter(iter); Self::from(data)
FromIter ==
    \E s \in Storage :
        LET a == FromOp(Collect(s))
        IN  BuildFrom("from_iter", a[1], a[2], s)

\* ---------------------------------------------------------------------- push
\* push that moves the cursor before it replaces the element
PushOpCursorFirst(f, d, item) ==
    LET sum == UsizeAdd(f, 1)
        next_index == IF sum.v = LenOf(d) THEN 0 ELSE sum.v
    IN  IF next_index >= LenOf(d)
        THEN [first |-> next_index, data |-> d, ret |-> None, slot |-> next_index,
              ub |-> TRUE]
        ELSE [first |-> next_index, data |-> [d EXCEPT ![next_index + 1] = item],
              ret |-> d[next_index + 1], slot |-> next_index, ub |-> FALSE]

\* push that wraps the cursor one slot early
PushOpEarlyWrap(f, d, item) ==
    LET sum == UsizeAdd(f, 1)
        next_index == IF sum.v = LenOf(d) - 1 THEN 0 ELSE sum.v
    IN  IF f >= LenOf(d)
        THEN [first |-> next_index, data |-> d, ret |-> None, slot |-> f,
              ub |-> TRUE]
        ELSE [first |-> next_index, data |-> [d EXCEPT ![f + 1] = item],
              ret |-> d[f + 1], slot |-> f, ub |-> FALSE]

\* push that reads the slot after writing it: it returns the item given
PushOpReturnsNew(f, d, item) ==
    LET sum == UsizeAdd(f, 1)
        next_index == IF sum.v = LenOf(d) THEN 0 ELSE sum.v
    IN  IF f >= LenOf(d)
        THEN [first |-> next_index, data |-> d, ret |-> None, slot |-> f,
              ub |-> TRUE]
        ELSE [first |-> next_index, data |-> [d EXCEPT ![f + 1] = item],
              ret |-> item, slot |-> f, ub |-> FALSE]

\* push that wraps the cursor whenever it is at or past the length
PushOpWrapPast(f, d, item) ==
    LET sum == UsizeAdd(f, 1)
        next_index == IF sum.v >= LenOf(d) THEN 0 ELSE sum.v
    IN  IF f >= LenOf(d)
        THEN [first |-> next_index, data |-> d, ret |-> None, slot |-> f,
              ub |-> TRUE]
        ELSE [first |-> next_index, data |-> [d EXCEPT ![f + 1] = item],
              ret |-> d[f + 1], slot |-> f, ub |-> FALSE]

\* Fixed::push on (f, d): the ring afterwards, the element returned and the
\* slot written.  `ub`: get_unchecked_mut was handed an index outside the slice.
PushOp(f, d, item) ==
    LET sum == UsizeAdd(f, 1)
        next_index == IF sum.v = LenOf(d) THEN 0 ELSE sum.v
    IN  IF f >= LenOf(d)
        THEN [first |-> next_index, data |-> d, ret |-> None, slot |-> f,
              ub |-> TRUE]
        ELSE [first |-> next_index, data |-> [d EXCEPT ![f + 1] = item],
              ret |-> d[f + 1], slot |-> f, ub |-> FALSE]

\* What a call of push can do.  In a valid state (f < len) it is PushOp.
\* When first + 1 overflows usize, a build with overflow checks panics there,
\* before the slot is touched, and one without goes on with the wrapped sum.
\* When f >= len, get_unchecked_mut(f) is undefined behaviour: the build
\* either stops the program (the precondition check of a debug build, a fault
\* on the address) or replaces whatever lies at that index outside the storage
\* and goes on, returning some element and storing next_index in first.
PushOutcomes(f, d, item) ==
    LET r == PushOp(f, d, item)
        trapped == IF UsizeAdd(f, 1).overflow
                   THEN {[first |-> f, data |-> d, ret |-> None,
                          slot |-> None, panicked |-> TRUE]}
                   ELSE {}
        done == IF r.ub
                THEN {[first |-> f, data |-> d, ret |-> None, slot |-> r.slot,
                       panicked |-> TRUE]}
                     \cup {[first |-> r.first, data |-> d, ret |-> v,
                            slot |-> r.slot, panicked |-> FALSE] : v \in Val}
                ELSE {[first |-> r.first, data |-> r.data, ret |-> r.ret,
                       slot |-> r.slot, panicked |-> FALSE]}
    IN  trapped \cup done

Push ==
    /\ pc = "ready"
    /\ ~it.active
    /\ npush < MaxPush
    /\ \E item \in Val :
         \E o \in PushOutcomes(first, data, item) :
             /\ res' = [NoRes EXCEPT !.op = "push", !.item = item,
                                     !.panicked = o.panicked,
                                     !.ret = o.ret, !.ref = o.slot]
             /\ first' = o.first
             /\ data' = o.data
             /\ pc' = IF o.panicked THEN "panicked" ELSE "ready"
             /\ fifo' = IF o.panicked \/ fifo = <<>> THEN fifo
                        ELSE Append(Tail(fifo), item)
             /\ npush' = IF o.panicked THEN npush ELSE npush + 1
    /\ UNCHANGED <<first0, it>>

\* ----------------------------------------------------------------- set_first
\* set_first that stores the index as given
SetFirstOpNoWrap(index, d) == index

\* Fixed::set_first: index % self.len()
SetFirstOp(index, d) == index % LenOf(d)

\* the remainder by a zero length panics
SetFirst ==
    /\ pc = "ready"
    /\ ~it.active
    /\ \E index \in Usize :
         IF LenOf(data) = 0
         THEN /\ res' = [NoRes EXCEPT !.op = "set_first", !.idx = index,
                                      !.panicked = TRUE]
              /\ pc' = "panicked"
              /\ UNCHANGED <<first, first0, fifo, npush>>
         ELSE /\ res' = [NoRes EXCEPT !.op = "set_first", !.idx = index]
              /\ first' = SetFirstOp(index, data)
              /\ first0' = first'
              /\ fifo' = IF first' < Len(data) THEN Logical(first', data)
                         ELSE <<>>
              /\ npush' = 0
              /\ pc' = "ready"
    /\ UNCHANGED <<data, it>>

\* ------------------------------------------------------------ get / get_mut
\* the index wrapped by the remainder instead of the mask
WrappedIndexMod(f, index, d) ==
    IF LenOf(d) = 0 THEN 0 ELSE UsizeAdd(f, index).v % LenOf(d)

\* the mask len - 1, the one that wraps a power-of-two length
WrappedIndexLenMinusOne(f, index, d) ==
    IF LenOf(d) = 0 THEN 0 ELSE BitAnd(UsizeAdd(f, index).v, LenOf(d) - 1)

\* (self.first + index) & self.len()
WrappedIndex(f, index, d) == BitAnd(UsizeAdd(f, index).v, LenOf(d))

\* Fixed::get and Fixed::get_mut on (f, d): the slot referred to, or a panic.
\* The slice's bounds check panics on wrapped_index >= len.  When first + index
\* overflows usize, a build with overflow checks panics and one without wraps.
GetOp(f, index, d) ==
    LET wrapped_index == WrappedIndex(f, index, d)
        indexed == IF wrapped_index >= LenOf(d)
                   THEN [panicked |-> TRUE, ref |-> None]
                   ELSE [panicked |-> FALSE, ref |-> wrapped_index]
    IN  IF UsizeAdd(f, index).overflow
        THEN {[panicked |-> TRUE, ref |-> None], indexed}
        ELSE {indexed}

\* an access by index, under the name it was called by
Access(name) ==
    /\ pc = "ready"
    /\ ~it.active
    /\ \E index \in Usize :
         \E r \in GetOp(first, index, data) :
             /\ res' = [NoRes EXCEPT !.op = name, !.idx = index,
                                     !.panicked = r.panicked, !.ref = r.ref]
             /\ pc' = IF r.panicked THEN "panicked" ELSE "ready"
    /\ UNCHANGED <<first, data, first0, fifo, npush, it>>

Get == Access("get")

GetMut == Access("get_mut")

\* Index::index: self.get(index)
IndexOp == Access("index")

\* IndexMut::index_mut: self.get_mut(index)
IndexMutOp == Access("index_mut")

\* -------------------------------------------------------------------- extend
\* extend that takes the items from the back of the sequence
RECURSIVE ExtendOpReversed(_, _, _)
ExtendOpReversed(f, d, items) ==
    IF items = <<>> THEN [first |-> f, data |-> d, ub |-> FALSE]
    ELSE LET r == PushOp(f, d, items[Len(items)])
         IN  IF r.ub THEN [first |-> r.first, data |-> r.data, ub |-> TRUE]
             ELSE ExtendOpReversed(r.first, r.data,
                                   SubSeq(items, 1, Len(items) - 1))

\* Extend::extend: for item in iter { self.push(item); }
RECURSIVE ExtendOp(_, _, _)
ExtendOp(f, d, items) ==
    IF items = <<>> THEN [first |-> f, data |-> d, ub |-> FALSE]
    ELSE LET r == PushOp(f, d, Head(items))
         IN  IF r.ub THEN [first |-> r.first, data |-> r.data, ub |-> TRUE]
             ELSE ExtendOp(r.first, r.data, Tail(items))

\* the history after the pushes of extend
RECURSIVE FifoAfter(_, _)
FifoAfter(q, items) ==
    IF items = <<>> THEN q
    ELSE FifoAfter(Append(Tail(q), Head(items)), Tail(items))

\* extend is called in valid states (first < len), where no push of the loop
\* leaves the storage
Extend ==
    /\ pc = "ready"
    /\ ~it.active
    /\ \E items \in SeqsUpTo(MaxExt) :
         LET r == ExtendOp(first, data, items)
         IN  /\ npush + Len(items) <= MaxPush
             /\ ~r.ub
             /\ res' = [NoRes EXCEPT !.op = "extend", !.input = items]
             /\ first' = r.first
             /\ data' = r.data
             /\ fifo' = FifoAfter(fifo, items)
             /\ npush' = npush + Len(items)
    /\ UNCHANGED <<pc, first0, it>>

\* ------------------------------------------------------- slices / slices_mut
\* the slots lo .. hi-1 of the storage, as one contiguous run
Run(lo, hi) == [j \in 1 .. (hi - lo) |-> lo + j - 1]

\* <[T]>::split_at(mid) on a slice of length n: the runs [0, mid) and [mid, n)
SplitAt(n, mid) == <<Run(0, mid), Run(mid, n)>>

\* slices that returns the two runs in storage order
SlicesStorageOrder(f, d) == SplitAt(LenOf(d), f)

\* Fixed::slices and Fixed::slices_mut: let (end, start) = split_at(first);
\* (start, end)
Slices(f, d) ==
    LET parts == SplitAt(LenOf(d), f)
        end == parts[1]
        start == parts[2]
    IN  <<start, end>>

\* split_at panics when mid > len
SlicesCall(name) ==
    /\ pc = "ready"
    /\ ~it.active
    /\ IF first <= LenOf(data)
       THEN /\ res' = [NoRes EXCEPT !.op = name,
                                    !.run1 = Slices(first, data)[1],
                                    !.run2 = Slices(first, data)[2]]
            /\ pc' = "ready"
       ELSE /\ res' = [NoRes EXCEPT !.op = name, !.panicked = TRUE]
            /\ pc' = "panicked"
    /\ UNCHANGED <<first, data, first0, fifo, npush, it>>

SlicesOp == SlicesCall("slices")

SlicesMut == SlicesCall("slices_mut")

\* ----------------------------------------------------- iter_loop / iter
\* the slice iterator without cycle(): it ends at the end of the slice
CycleNextOnce(pos, d) ==
    IF pos < LenOf(d) THEN [out |-> pos, pos |-> pos + 1]
    ELSE [out |-> None, pos |-> pos]

\* Cycle<slice::Iter>::next with the inner iterator at slot `pos`: the inner
\* iterator's element, or, at its end, a fresh copy's first element
CycleNext(pos, d) ==
    IF pos < LenOf(d) THEN [out |-> pos, pos |-> pos + 1]
    ELSE IF LenOf(d) = 0 THEN [out |-> None, pos |-> pos]
    ELSE [out |-> 0, pos |-> 1]

\* Iterator::nth(n) on the cycle: drop n elements, yield the next
RECURSIVE CycleNth(_, _, _)
CycleNth(pos, n, d) ==
    LET s == CycleNext(pos, d)
    IN  IF n = 0 \/ s.out = None THEN s
        ELSE CycleNth(s.pos, n - 1, d)

\* Skip::next: the first call is nth(n), the later ones are next
SkipNext(i, d) ==
    LET s == IF i.n > 0 THEN CycleNth(i.pos, i.n, d) ELSE CycleNext(i.pos, d)
    IN  [i EXCEPT !.pos = s.pos, !.n = 0, !.out = s.out,
                  !.ended = (s.out = None),
                  !.k = IF s.out = None THEN i.k ELSE i.k + 1]

\* iter_loop without skip(first)
IterLoopOpNoSkip(f, d) == [NoIter EXCEPT !.active = TRUE]

\* Fixed::iter_loop: self.data.slice().iter().cycle().skip(self.first)
IterLoopOp(f, d) == [NoIter EXCEPT !.active = TRUE, !.n = f]

\* Take::next over iter_loop, run to its end: while n # 0, n -= 1 and next
RECURSIVE TakeAll(_, _, _)
TakeAll(i, n, d) ==
    IF n = 0 THEN <<>>
    ELSE LET j == SkipNext(i, d)
         IN  IF j.ended THEN <<>>
             ELSE <<j.out>> \o TakeAll(j, n - 1, d)

\* Fixed::iter: self.iter_loop().take(self.data.slice().len()), drained
IterOp(f, d) == TakeAll(IterLoopOp(f, d), LenOf(d), d)

\* Fixed::iter_mut: start.iter_mut().chain(end.iter_mut()), drained
IterMutOp(f, d) == Slices(f, d)[1] \o Slices(f, d)[2]

Iter ==
    /\ pc = "ready"
    /\ ~it.active
    /\ res' = [NoRes EXCEPT !.op = "iter", !.run1 = IterOp(first, data)]
    /\ UNCHANGED <<pc, first, data, first0, fifo, npush, it>>

\* slices_mut panics (split_at_mut) when first > len
IterMut ==
    /\ pc = "ready"
    /\ ~it.active
    /\ IF first <= LenOf(data)
       THEN /\ res' = [NoRes EXCEPT !.op = "iter_mut",
                                    !.run1 = IterMutOp(first, data)]
            /\ pc' = "ready"
       ELSE /\ res' = [NoRes EXCEPT !.op = "iter_mut", !.panicked = TRUE]
            /\ pc' = "panicked"
    /\ UNCHANGED <<first, data, first0, fifo, npush, it>>

\* iter_loop() borrows the ring: until the iterator is dropped no other call
\* is made
IterLoop ==
    /\ pc = "ready"
    /\ ~it.active
    /\ it' = IterLoopOp(first, data)
    /\ res' = [NoRes EXCEPT !.op = "iter_loop"]
    /\ UNCHANGED <<pc, first, data, first0, fifo, npush>>

IterLoopNext ==
    /\ pc = "ready"
    /\ it.active
    /\ ~it.ended
    /\ it.k < MaxIter
    /\ it' = SkipNext(it, data)
    /\ res' = [NoRes EXCEPT !.op = "iter_loop.next", !.ref = it'.out]
    /\ UNCHANGED <<pc, first, data, first0, fifo, npush>>

IterLoopDrop ==
    /\ pc = "ready"
    /\ it.active
    /\ it' = NoIter
    /\ res' = [NoRes EXCEPT !.op = "iter_loop.drop"]
    /\ UNCHANGED <<pc, first, data, first0, fifo, npush>>

\* ------------------------------------------------------------ into_raw_parts
\* into_raw_parts that hands the elements back oldest first, with cursor 0
IntoRawPartsOpLogical(f, d) ==
    <<0, IF LenOf(d) = 0 THEN d ELSE Logical(f, d)>>

\* Fixed::into_raw_parts: let Fixed { first, data } = self; (first, data)
IntoRawPartsOp(f, d) == <<f, d>>

\* the ring is moved out of: no call can follow.  The call log keeps the pair
\* returned and the name of the call made before.
IntoRawParts ==
    /\ pc = "ready"
    /\ ~it.active
    /\ res' = [NoRes EXCEPT !.op = "into_raw_parts",
                            !.idx = IntoRawPartsOp(first, data)[1],
                            !.input = IntoRawPartsOp(first, data)[2],
                            !.after = res.op]
    /\ pc' = "consumed"
    /\ UNCHANGED <<first, data, first0, fifo, npush, it>>

Next ==
    \/ FromRawParts
    \/ From
    \/ FromIter
    \/ Push
    \/ Extend
    \/ SetFirst
    \/ Get
    \/ GetMut
    \/ IndexOp
    \/ IndexMutOp
    \/ SlicesOp
    \/ SlicesMut
    \/ Iter
    \/ IterMut
    \/ IterLoop
    \/ IterLoopNext
    \/ IterLoopDrop
    \/ IntoRawParts

Spec == Init /\ [][Next]_vars

\* the ring made without the assertion, then pushed to and repositioned
NextUnchecked ==
    \/ FromRawPartsUnchecked
    \/ Push
    \/ SetFirst

SpecUnchecked == Init /\ [][NextUnchecked]_vars

\* ------------------------------------------------------------------ claims
\* a step that is one call of push
IsPushStep == res'.op = "push" /\ npush' = npush + 1

\* C1: FIFO eviction.  On a ring whose cursor was set to 0 with the elements
\* e0 .. e(N-1) (as from() does), every push returns the head of the queue
\* e0 .. e(N-1), item 0, item 1, ... from which one element was taken per
\* earlier push: e_j for push j < N, the item of push j - N afterwards.
C1_FifoEviction ==
    [][(IsPushStep /\ first0 = 0) => res'.ret = Head(fifo)]_vars

\* C1 witness: a ring of length 3 made with cursor 0 has been pushed to more
\* than 3 times, and the last push returned a pushed item
C1_Witness ==
    /\ res.op = "push"
    /\ first0 = 0
    /\ Len(data) = 3
    /\ npush = 4
    /\ res.ret = 1
    /\ data = <<0, 0, 0>>

\* C2: logical-position stability under push.  After a push the element that
\* was at logical position k (1 <= k < N) is at position k - 1, and the item
\* pushed is at position N - 1, position i being slot (first + i) mod len.
C2_PositionStability ==
    [][IsPushStep =>
         LET N == Len(data)
         IN  /\ Len(data') = N
             /\ \A k \in 1 .. (N - 1) :
                  data'[((first' + k - 1) % N) + 1] = data[((first + k) % N) + 1]
             /\ data'[((first' + N - 1) % N) + 1] = res'.item]_vars

\* C2 witness: a push that wrapped the cursor of a ring of length 3
C2_Witness ==
    /\ res.op = "push"
    /\ Len(data) = 3
    /\ first = 0
    /\ res.ref = 2
    /\ res.item = 1
    /\ data = <<0, 0, 1>>

\* C3: cursor invariant.  In every state of a ring reached through the checked
\* calls, 0 <= first < len, the slot push last accessed was inside the
\* storage, and the slot the next push would access is inside it too.
C3_CursorInvariant ==
    pc = "ready" =>
        /\ first \in 0 .. (Len(data) - 1)
        /\ res.op = "push" => res.ref \in 0 .. (Len(data) - 1)
        /\ ~PushOp(first, data, 0).ub

\* C3 witness: after set_first with an index beyond the length, pushes have
\* carried the cursor over the end of the storage
C3_Witness ==
    /\ pc = "ready"
    /\ res.op = "push"
    /\ Len(data) = 3
    /\ first0 = 2
    /\ npush = 2
    /\ first = 1

\* C4 (as claimed): get(i) and get_mut(i) with 0 <= i < len succeed and refer
\* to slot (first + i) mod len.
C4_InRangeAccess ==
    (res.op \in {"get", "get_mut"} /\ res.idx < Len(data)) =>
        /\ ~res.panicked
        /\ res.ref = (first + res.idx) % Len(data)

\* C5 (as claimed): get(i) and get_mut(i) with i >= len always panic.
C5_OutOfRangeRejected ==
    (res.op \in {"get", "get_mut"} /\ res.idx >= Len(data)) => res.panicked

\* C5 (amended): get(i) and get_mut(i) with i >= len never refer outside the
\* storage; they panic exactly when (first + i) AND len = len (or on the
\* overflow of first + i in a build that checks it), and otherwise refer to
\* slot (first + i) AND len, which is below len.
C5_OutOfRangeMasked ==
    (res.op \in {"get", "get_mut"} /\ res.idx >= Len(data)) =>
        LET sum == first + res.idx
            masked == BitAnd(sum % UsizeRange, Len(data))
        IN  /\ sum < UsizeRange => (res.panicked <=> masked = Len(data))
            /\ ~res.panicked => (res.ref = masked /\ res.ref < Len(data))

\* C5 witness: an access one or more past the end that returned a reference
C5_Witness ==
    /\ res.op = "get"
    /\ Len(data) = 3
    /\ first = 1
    /\ res.idx = 4
    /\ ~res.panicked
    /\ res.ref = 1

\* C6 (as claimed): on a ring made by from(), rb[i] with i >= len does not
\* panic and refers to a slot inside the storage.
C6_IndexNeverPanics ==
    (res.op = "index" /\ first = 0 /\ first0 = 0 /\ npush = 0
        /\ res.idx >= Len(data)) =>
        /\ ~res.panicked
        /\ res.ref \in 0 .. (Len(data) - 1)

\* C7: round trip via slices.  The two runs of slices(), the first followed by
\* the second, are element for element the sequence iter() yields.
C7_SlicesRoundTrip ==
    /\ (res.op \in {"slices", "slices_mut"} /\ ~res.panicked) =>
          res.run1 \o res.run2 = IterOp(first, data)
    /\ pc = "ready" =>
          Slices(first, data)[1] \o Slices(first, data)[2] = IterOp(first, data)

\* C7 witness: slices() of a ring whose cursor is inside the storage, so that
\* both runs are non-empty
C7_Witness ==
    /\ res.op = "slices"
    /\ Len(data) = 3
    /\ first = 2
    /\ res.run1 = <<2>>
    /\ res.run2 = <<0, 1>>

\* the slots of (f, d) in logical order
LogicalSlots(f, d) == [i \in 1 .. Len(d) |-> (f + i - 1) % Len(d)]

\* C8: finite iteration.  iter() and iter_mut() yield exactly len elements, the
\* i-th being the one in slot (first + i) mod len.
C8_FiniteIteration ==
    /\ res.op \in {"iter", "iter_mut"} => res.run1 = LogicalSlots(first, data)
    /\ pc = "ready" =>
          /\ IterOp(first, data) = LogicalSlots(first, data)
          /\ IterMutOp(first, data) = LogicalSlots(first, data)

\* C8 witness: iter() of a ring of length 3 whose cursor is at slot 1
C8_Witness ==
    /\ res.op = "iter"
    /\ Len(data) = 3
    /\ first = 1
    /\ res.run1 = <<1, 2, 0>>

\* C9: infinite cycling iteration.  A live iter_loop() iterator has not ended,
\* its k-th element (counting from 0) was the one in slot (first + k) mod len,
\* and drawing from it again yields an element.
C9_InfiniteCycle ==
    it.active =>
        /\ ~it.ended
        /\ it.k > 0 => it.out = (first + it.k - 1) % Len(data)
        /\ ~SkipNext(it, data).ended

\* C9 witness: an iterator over a ring of length 3 with cursor 2 that has gone
\* round the storage twice
C9_Witness ==
    /\ it.active
    /\ Len(data) = 3
    /\ first = 2
    /\ it.k = 7
    /\ it.out = 2

\* C10: rejection of a degenerate ring.  from, from_raw_parts (with any first)
\* and from_iter panic on storage of length zero, and no ring has length zero.
C10_EmptyRejected ==
    /\ (res.op \in {"from", "from_raw_parts", "from_iter"} /\ res.input = <<>>) =>
          (res.panicked /\ pc = "panicked")
    /\ pc = "ready" => Len(data) > 0

\* C10 witness: from_raw_parts was called with a cursor and empty storage
C10_Witness ==
    /\ res.op = "from_raw_parts"
    /\ res.input = <<>>
    /\ res.idx = 1
    /\ pc = "panicked"

\* C11: checked raw-parts construction.  from_raw_parts(first, storage) panics
\* and makes no ring when first >= storage.len(); when first < storage.len()
\* it succeeds with that cursor and that storage.
C11_RawPartsChecked ==
    res.op = "from_raw_parts" =>
        IF res.idx >= Len(res.input)
        THEN res.panicked /\ pc = "panicked"
        ELSE /\ ~res.panicked
             /\ pc = "ready"
             /\ first = res.idx
             /\ data = res.input

\* C11 witness: the cursor equal to the length, the first one rejected
C11_Witness ==
    /\ res.op = "from_raw_parts"
    /\ res.idx = 3
    /\ res.input = <<1, 0, 1>>
    /\ res.panicked
    /\ pc = "panicked"

\* C12: raw-parts round trip.  into_raw_parts called on the ring that
\* from_raw_parts(first, storage) just made returns that cursor and that
\* storage, every element in its slot.
C12_RawPartsRoundTrip ==
    [][(res.op = "from_raw_parts" /\ ~res.panicked
          /\ res'.op = "into_raw_parts") =>
         (res'.idx = res.idx /\ res'.input = res.input)]_vars

\* C12 witness: a ring made with cursor 2 was taken apart at once
C12_Witness ==
    /\ pc = "consumed"
    /\ res.op = "into_raw_parts"
    /\ res.after = "from_raw_parts"
    /\ res.idx = 2
    /\ res.input = <<0, 1, 1>>

\* C13: set_first(i), for any i, sets the cursor to i mod len and changes no
\* slot and not the length; logical position 0 is then slot i mod len.
C13_SetFirstFrame ==
    [][(res'.op = "set_first" /\ ~res'.panicked) =>
         /\ first' = res'.idx % Len(data)
         /\ data' = data
         /\ IterOp(first', data')[1] = res'.idx % Len(data)
         /\ Slices(first', data')[1][1] = res'.idx % Len(data)]_vars

\* C13 witness: set_first(7) on a ring of length 3 whose cursor was elsewhere
C13_Witness ==
    /\ res.op = "set_first"
    /\ res.idx = 7
    /\ Len(data) = 3
    /\ first = 1
    /\ data = <<0, 1, 1>>

\* C14: from(storage) on non-empty storage makes a ring with first = 0 and
\* the storage as given: logical position i is slot i and iter() yields the
\* slots in storage order.
C14_FromAdopts ==
    /\ (res.op = "from" /\ res.input # <<>>) =>
          /\ ~res.panicked
          /\ pc = "ready"
          /\ first = 0
          /\ data = res.input
          /\ IterOp(first, data) = [i \in 1 .. Len(res.input) |-> i - 1]
    /\ (res.op = "from" /\ pc = "ready") => res.input # <<>>

\* C14 witness: from() of storage of length 3
C14_Witness ==
    /\ res.op = "from"
    /\ pc = "ready"
    /\ data = <<1, 0, 1>>
    /\ first = 0

\* storage of length n filled with the placeholder (default) element
Placeholder(n) == [i \in 1 .. n |-> 0]

\* the ring (f, d) after push(items[1]), push(items[2]), ... in that order,
\* the returned elements dropped
RECURSIVE PushEach(_, _, _)
PushEach(f, d, items) ==
    IF items = <<>> THEN [first |-> f, data |-> d]
    ELSE PushEach(PushOp(f, d, Head(items)).first,
                  PushOp(f, d, Head(items)).data, Tail(items))

\* C15 (as claimed): from_iter yields a ring, of the length of some target
\* capacity c, that has the length and the logical contents of placeholder
\* storage of length c after one push per element of the sequence.
C15_IncrementalBuild ==
    res.op = "from_iter" =>
        \E c \in 1 .. MaxLen :
            LET r == PushEach(0, Placeholder(c), res.input)
            IN  /\ ~res.panicked
                /\ pc = "ready"
                /\ Len(data) = c
                /\ Logical(first, data) = Logical(r.first, r.data)

\* C15 (amended): from_iter collects the whole sequence and adopts it with
\* first = 0: the length of the ring is the length of the sequence, an empty
\* sequence panics, and a non-empty one gives the ring that placeholder storage
\* of the sequence's own length becomes after one push per element, in order.
C15_CollectedBuild ==
    res.op = "from_iter" =>
        /\ res.panicked <=> res.input = <<>>
        /\ res.panicked => pc = "panicked"
        /\ ~res.panicked =>
              LET r == PushEach(0, Placeholder(Len(res.input)), res.input)
              IN  /\ pc = "ready"
                  /\ Len(data) = Len(res.input)
                  /\ first = r.first
                  /\ data = r.data

\* C15 witness: from_iter over a sequence shorter than the longest storage
C15_Witness ==
    /\ res.op = "from_iter"
    /\ res.input = <<1, 0>>
    /\ pc = "ready"
    /\ Len(data) = 2

\* C16: bulk append.  extend(seq) leaves the cursor and the storage that
\* push on each element of seq in order leaves; the length stays, and an empty
\* sequence changes nothing.
C16_ExtendIsPushes ==
    [][res'.op = "extend" =>
         LET r == PushEach(first, data, res'.input)
         IN  /\ first' = r.first
             /\ data' = r.data
             /\ Len(data') = Len(data)
             /\ res'.input = <<>> => (first' = first /\ data' = data)]_vars

\* C16 witness: extend with two different items that carried the cursor over
\* the end of a ring of length 3
C16_Witness ==
    /\ res.op = "extend"
    /\ res.input = <<1, 0>>
    /\ Len(data) = 3
    /\ first = 1
    /\ data[3] = 1
    /\ data[1] = 0

\* C17: effect and frame of push.  With cursor f, push(item) writes item into
\* slot f and into no other slot, returns what slot f held, sets first to
\* f + 1, or to 0 when f + 1 = len, and keeps the length.
C17_PushEffect ==
    [][IsPushStep =>
         LET f == first
             N == Len(data)
         IN  /\ res'.ref = f
             /\ data'[f + 1] = res'.item
             /\ \A j \in 1 .. N : j # f + 1 => data'[j] = data[j]
             /\ res'.ret = data[f + 1]
             /\ first' = IF f + 1 = N THEN 0 ELSE f + 1
             /\ Len(data') = N]_vars

\* C17 witness: a push of 1 over a 0 in the middle slot of a ring of length 3
C17_Witness ==
    /\ res.op = "push"
    /\ Len(data) = 3
    /\ res.ref = 1
    /\ res.item = 1
    /\ res.ret = 0
    /\ first = 2
    /\ data = <<0, 1, 0>>

\* a length that is one less than a power of two
IsMaskLen(n) == \E k \in 1 .. UsizeBits : n = Pow2(k) - 1

\* C18 (as claimed): when len is one less than a power of two, the mask
\* (first + i) AND len is (first + i) mod len for every in-range first and i,
\* and get refers to the right slot.
C18_MaskIsRemainder ==
    (res.op \in {"get", "get_mut"} /\ IsMaskLen(Len(data))
        /\ res.idx < Len(data)) =>
        /\ BitAnd(first + res.idx, Len(data)) = (first + res.idx) % Len(data)
        /\ ~res.panicked
        /\ res.ref = (first + res.idx) % Len(data)

\* C18 (amended): when len is one less than a power of two, the mask is the
\* remainder exactly when first + i < len, where nothing has to wrap.  At
\* first + i = len the mask is len and get panics; above it the mask is
\* first + i - len - 1, the slot before the right one.
C18_MaskWithoutWrap ==
    (res.op \in {"get", "get_mut"} /\ IsMaskLen(Len(data))
        /\ res.idx < Len(data) /\ first + res.idx < UsizeRange) =>
        LET sum == first + res.idx
            N == Len(data)
        IN  /\ sum < N => (~res.panicked /\ res.ref = sum % N)
            /\ sum = N => res.panicked
            /\ sum > N => (~res.panicked /\ res.ref = sum - N - 1
                            /\ res.ref # sum % N)

\* C18 witness: len 3, first 2, get(2): the mask gives slot 0, the remainder 1
C18_Witness ==
    /\ res.op = "get"
    /\ Len(data) = 3
    /\ first = 2
    /\ res.idx = 2
    /\ ~res.panicked
    /\ res.ref = 0

\* C19: cursor arithmetic.  k pushes after the cursor was set to f0 leave
\* first = (f0 + k) mod N; after exactly N pushes first is f0 again and iter()
\* yields the N pushed items in the order they were pushed.
C19_CursorArithmetic ==
    pc = "ready" =>
        /\ first = (first0 + npush) % Len(data)
        /\ npush = Len(data) =>
              /\ first = first0
              /\ [i \in 1 .. Len(data) |-> data[IterOp(first, data)[i] + 1]] = fifo

\* C19 witness: three pushes on a ring of length 3 whose cursor was 1
C19_Witness ==
    /\ pc = "ready"
    /\ res.op = "push"
    /\ Len(data) = 3
    /\ first0 = 1
    /\ npush = 3
    /\ first = 1
    /\ fifo = <<0, 1, 1>>
    /\ data = <<1, 0, 1>>

\* a step that is a call of push on a ring whose cursor is out of range
IsStrayPush == pc = "ready" /\ first >= Len(data) /\ res'.op = "push"

\* C20 (as claimed): from_raw_parts_unchecked accepts first >= len, and from
\* such a state every push that returns has accessed index first, outside
\* [0, len), and leaves first >= len.
C20_CursorStaysOut ==
    [][(IsStrayPush /\ ~res'.panicked) =>
         /\ res'.ref = first
         /\ res'.ref \notin 0 .. (Len(data) - 1)
         /\ first' >= Len(data')]_vars

\* C20 (amended): from_raw_parts_unchecked accepts any first.  From a state
\* with first >= len and first + 1 representable, a push accesses index first,
\* outside [0, len), and leaves first >= len (first + 1 when it returns).  At
\* first = usize::MAX the addition overflows: the push panics before the
\* access, or it accesses index first and stores the wrapped cursor 0.
\* set_first puts the cursor back in range.
C20_CursorStaysOutBelowMax ==
    /\ [](res.op = "from_raw_parts_unchecked" =>
            (~res.panicked /\ pc = "ready" /\ first = res.idx
               /\ data = res.input))
    /\ [][IsStrayPush =>
            IF first + 1 < UsizeRange
            THEN /\ res'.ref = first
                 /\ res'.ref \notin 0 .. (Len(data) - 1)
                 /\ first' >= Len(data')
                 /\ ~res'.panicked => first' = first + 1
            ELSE \/ res'.panicked /\ first' = first
                 \/ ~res'.panicked /\ res'.ref = first /\ first' = 0]_vars
    /\ [][(res'.op = "set_first" /\ ~res'.panicked) =>
            first' < Len(data')]_vars

\* C20 witness: a ring of length 3 made with cursor 4 has been pushed to, the
\* push touched index 4 and the cursor is 5
C20_Witness ==
    /\ res.op = "push"
    /\ ~res.panicked
    /\ Len(data) = 3
    /\ first0 = 4
    /\ res.ref = 4
    /\ first = 5
    /\ pc = "ready"

=============================================================================
